---------------------------- MODULE Spec2Model ----------------------------
(***************************************************************************)
(* A model of elearn/models_fixed.py: the relational schema of the         *)
(* e-learning application (one table per model class), the storage-level   *)
(* constraints its fields declare (unique, unique_together, foreign keys   *)
(* with on_delete=CASCADE), the application-level validation (validators,  *)
(* Profile.clean) that runs only when a caller invokes it, and the three   *)
(* methods with behaviour: Profile.clean, Notes.delete and                 *)
(* Learner.get_unanswered_questions.                                       *)
(*                                                                         *)
(* A row is a record of the columns the constraints and methods read; the  *)
(* free-text columns (title, bio, ...) constrain nothing and are left out. *)
(* Primary keys come from per-table increasing sequences (seq).            *)
(***************************************************************************)
EXTENDS Integers, FiniteSets, Sequences, TLC

VARIABLES
    users,          \* User: set of primary keys
    profiles,       \* Profile rows [pk, user, email]
    announcements,  \* Announcement rows [pk, user]
    courses,        \* Course: set of primary keys
    tutorials,      \* Tutorial rows [pk, course, user]
    notes,          \* Notes rows [pk, course, user, file, cover]
    quizzes,        \* Quiz rows [pk, owner, course, time_limit_minutes, passing_score, max_attempts]
    questions,      \* Question rows [pk, quiz, order]
    answers,        \* Answer rows [pk, question]
    learners,       \* Learner: set of primary keys (the user's primary key)
    instructors,    \* Instructor rows [pk, user]
    takenQuizzes,   \* TakenQuiz rows [pk, learner, quiz, attempt_number]
    learnerAnswers, \* LearnerAnswer rows [pk, student, answer, question]
    interests,      \* Learner.interests link rows [pk, learner, course]
    expertise,      \* Instructor.expertise link rows [pk, instructor, course]
    blobs,          \* names of the files the blob store holds
    seq,            \* per table, the last primary key handed out
    writer,         \* per profile writer: the in-memory Profile it validates and saves
    deleter,        \* per caller of Notes.delete(): the in-memory Notes and its position
    quizReq,        \* the in-memory Quiz being validated and saved
    last            \* what the last insert, delete or query returned to its caller

tables == <<users, profiles, announcements, courses, tutorials, notes, quizzes,
            questions, answers, learners, instructors, takenQuizzes,
            learnerAnswers, interests, expertise>>

vars == <<users, profiles, announcements, courses, tutorials, notes, quizzes,
          questions, answers, learners, instructors, takenQuizzes,
          learnerAnswers, interests, expertise, blobs, seq, writer, deleter,
          quizReq, last>>

---------------------------------------------------------------------------
(* Bounds of the model. *)

MaxUsers == 2
MaxCourses == 1
MaxNotes == 2
MaxQuizzes == 1
MaxAnswerRows == 5
MaxTaken == 3
MaxAttemptNo == 2
MaxRows == 7

\* Two concurrent callers of each multi-step operation.
Writers == {"w1", "w2"}
Deleters == {"d1", "d2"}

Tables == {"User", "Profile", "Announcement", "Course", "Tutorial", "Notes",
           "Quiz", "Question", "Answer", "Instructor", "TakenQuiz",
           "LearnerAnswer", "interests", "expertise", "blob"}

\* The empty e-mail, which Profile.clean does not check, and two addresses.
Emails == {"", "a@x.org", "b@x.org"}

\* An unsaved instance has pk None.
NoPk == 0

NextPk(t) == seq[t] + 1

Bump(t) == [seq EXCEPT ![t] = @ + 1]

---------------------------------------------------------------------------
(* User *)

CreateUser ==
    /\ users' = users \cup {NextPk("User")}
    /\ seq' = Bump("User")
    /\ UNCHANGED <<profiles, announcements, courses, tutorials, notes, quizzes,
                   questions, answers, learners, instructors, takenQuizzes,
                   learnerAnswers, interests, expertise, blobs, writer,
                   deleter, quizReq, last>>

---------------------------------------------------------------------------
(* Profile *)

IdleWriter == [pc |-> "idle", op |-> "none", pk |-> NoPk, user |-> NoPk,
               email |-> "", cleaned |-> FALSE, result |-> "none"]

\* The query without .exclude(pk=self.pk): a stored profile would clash
\* with itself.
CleanRaisesNoExclude(pk, email) ==
    email # "" /\ \E p \in profiles : p.email = email

\* Profile.clean's condition:
\* self.email and Profile.objects.filter(email=self.email).exclude(pk=self.pk).exists()
CleanRaises(pk, email) ==
    email # "" /\ \E p \in profiles : p.email = email /\ p.pk # pk

\* Profile.email without unique=True: no index, nothing is ever taken.
EmailTakenNoIndex(pk, email) == FALSE

\* email = EmailField(unique=True): the unique index on Profile.email
EmailTaken(pk, email) ==
    \E p \in profiles : p.pk # pk /\ p.email = email

\* user = OneToOneField(User, on_delete=CASCADE): unique, and a foreign key
UserTaken(pk, user) ==
    \E p \in profiles : p.pk # pk /\ p.user = user

\* What the storage layer answers to the INSERT or UPDATE of a Profile row.
ProfileIntegrityError(pk, user, email) ==
    \/ EmailTaken(pk, email)
    \/ UserTaken(pk, user)
    \/ user \notin users

\* A caller builds a new Profile for a user.
ProfileNew(w, u, e) ==
    /\ writer[w].pc \in {"idle", "done"}
    /\ u \in users
    /\ writer' = [writer EXCEPT ![w] =
                    [pc |-> "loaded", op |-> "create", pk |-> NoPk, user |-> u,
                     email |-> e, cleaned |-> FALSE, result |-> "none"]]
    /\ UNCHANGED <<tables, blobs, seq, deleter, quizReq, last>>

\* A caller loads a stored Profile and assigns its email (maybe the same one).
ProfileLoad(w, p, e) ==
    /\ writer[w].pc \in {"idle", "done"}
    /\ p \in profiles
    /\ writer' = [writer EXCEPT ![w] =
                    [pc |-> "loaded", op |-> "update", pk |-> p.pk,
                     user |-> p.user, email |-> e, cleaned |-> FALSE, result |-> "none"]]
    /\ UNCHANGED <<tables, blobs, seq, deleter, quizReq, last>>

\* Profile.clean(): raises ValidationError, or returns; reads only.
ProfileClean(w) ==
    /\ writer[w].pc = "loaded"
    /\ IF CleanRaises(writer[w].pk, writer[w].email)
         THEN writer' = [writer EXCEPT ![w].pc = "done",
                                       ![w].result = "ValidationError"]
         ELSE writer' = [writer EXCEPT ![w].pc = "cleaned",
                                       ![w].cleaned = TRUE]
    /\ UNCHANGED <<tables, blobs, seq, deleter, quizReq, last>>

\* save() that validated first: it would report a duplicate as a
\* ValidationError and never reach the storage layer with one.
ProfileSaveCleans(w) ==
    LET i == writer[w]
        pk == IF i.pk = NoPk THEN NextPk("Profile") ELSE i.pk
    IN
    /\ i.pc \in {"loaded", "cleaned"}
    /\ IF CleanRaises(i.pk, i.email)
         THEN /\ writer' = [writer EXCEPT ![w].pc = "done",
                                          ![w].result = "ValidationError"]
              /\ UNCHANGED <<profiles, seq>>
         ELSE IF ProfileIntegrityError(i.pk, i.user, i.email)
         THEN /\ writer' = [writer EXCEPT ![w].pc = "done",
                                          ![w].result = "IntegrityError"]
              /\ UNCHANGED <<profiles, seq>>
         ELSE /\ profiles' = {p \in profiles : p.pk # pk}
                               \cup {[pk |-> pk, user |-> i.user, email |-> i.email]}
              /\ seq' = IF i.pk = NoPk THEN Bump("Profile") ELSE seq
              /\ writer' = [writer EXCEPT ![w].pc = "done", ![w].pk = pk,
                                          ![w].result = "saved"]
    /\ UNCHANGED <<users, announcements, courses, tutorials, notes, quizzes,
                   questions, answers, learners, instructors, takenQuizzes,
                   learnerAnswers, interests, expertise, blobs, deleter,
                   quizReq, last>>

\* Model.save(): it does not call clean(); the storage layer checks the row.
ProfileSave(w) ==
    LET i == writer[w]
        pk == IF i.pk = NoPk THEN NextPk("Profile") ELSE i.pk
    IN
    /\ i.pc \in {"loaded", "cleaned"}
    /\ IF ProfileIntegrityError(i.pk, i.user, i.email)
         THEN /\ writer' = [writer EXCEPT ![w].pc = "done",
                                          ![w].result = "IntegrityError"]
              /\ UNCHANGED <<profiles, seq>>
         ELSE /\ profiles' = {p \in profiles : p.pk # pk}
                               \cup {[pk |-> pk, user |-> i.user, email |-> i.email]}
              /\ seq' = IF i.pk = NoPk THEN Bump("Profile") ELSE seq
              /\ writer' = [writer EXCEPT ![w].pc = "done", ![w].pk = pk,
                                          ![w].result = "saved"]
    /\ UNCHANGED <<users, announcements, courses, tutorials, notes, quizzes,
                   questions, answers, learners, instructors, takenQuizzes,
                   learnerAnswers, interests, expertise, blobs, deleter,
                   quizReq, last>>

---------------------------------------------------------------------------
(* Course *)

CreateCourse ==
    /\ courses' = courses \cup {NextPk("Course")}
    /\ seq' = Bump("Course")
    /\ UNCHANGED <<users, profiles, announcements, tutorials, notes, quizzes,
                   questions, answers, learners, instructors, takenQuizzes,
                   learnerAnswers, interests, expertise, blobs, writer,
                   deleter, quizReq, last>>

---------------------------------------------------------------------------
(* Notes and the blob store *)

\* file and cover are null=True: a Notes row may have neither.
NoFile == 0

IdleDeleter == [pc |-> "idle",
                row |-> [pk |-> NoPk, course |-> NoPk, user |-> NoPk,
                         file |-> NoFile, cover |-> NoFile],
                file |-> NoFile, cover |-> NoFile]

\* Notes.objects.create(...): the uploads are stored under names the blob
\* store has not handed out before, then the row is inserted.
NotesCreate(c, u, withFile, withCover) ==
    LET f == IF withFile THEN NextPk("blob") ELSE NoFile
        k == IF withFile THEN 1 ELSE 0
        cv == IF withCover THEN NextPk("blob") + k ELSE NoFile
        n == k + (IF withCover THEN 1 ELSE 0)
    IN
    /\ c \in courses
    /\ u \in users
    /\ notes' = notes \cup {[pk |-> NextPk("Notes"), course |-> c, user |-> u,
                             file |-> f, cover |-> cv]}
    /\ blobs' = blobs \cup ({f, cv} \ {NoFile})
    /\ seq' = [seq EXCEPT !["Notes"] = @ + 1, !["blob"] = @ + n]
    /\ UNCHANGED <<users, profiles, announcements, courses, tutorials, quizzes,
                   questions, answers, learners, instructors, takenQuizzes,
                   learnerAnswers, interests, expertise, writer, deleter,
                   quizReq, last>>

\* A caller holds a Notes instance n and calls n.delete().
NotesDeleteBegin(d, n) ==
    /\ deleter[d].pc \in {"idle", "done", "failed"}
    /\ n \in notes
    /\ deleter' = [deleter EXCEPT ![d] =
                     [pc |-> "file", row |-> n, file |-> n.file, cover |-> n.cover]]
    /\ UNCHANGED <<users, profiles, announcements, courses, tutorials, notes,
                   quizzes, questions, answers, learners, instructors,
                   takenQuizzes, learnerAnswers, interests, expertise, blobs,
                   seq, writer, quizReq, last>>

\* The file field cleared on the instance only, its blob left in the store.
NotesDeleteFileKeepsBlob(d) ==
    /\ deleter[d].pc = "file"
    /\ deleter' = [deleter EXCEPT ![d].pc = "cover", ![d].file = NoFile]
    /\ UNCHANGED <<users, profiles, announcements, courses, tutorials, notes,
                   quizzes, questions, answers, learners, instructors,
                   takenQuizzes, learnerAnswers, interests, expertise, blobs,
                   seq, writer, quizReq, last>>

\* if self.file: self.file.delete(save=False)
\* storage.delete(name) removes the blob (a missing blob is no error) or
\* raises; on success the instance's field is cleared and nothing is saved.
NotesDeleteFile(d) ==
    /\ deleter[d].pc = "file"
    /\ IF deleter[d].file # NoFile
         THEN \/ /\ blobs' = blobs \ {deleter[d].file}
                 /\ deleter' = [deleter EXCEPT ![d].pc = "cover",
                                               ![d].file = NoFile]
              \/ /\ deleter' = [deleter EXCEPT ![d].pc = "failed"]
                 /\ UNCHANGED blobs
         ELSE /\ deleter' = [deleter EXCEPT ![d].pc = "cover"]
              /\ UNCHANGED blobs
    /\ UNCHANGED <<users, profiles, announcements, courses, tutorials, notes,
                   quizzes, questions, answers, learners, instructors,
                   takenQuizzes, learnerAnswers, interests, expertise, seq,
                   writer, quizReq, last>>

\* delete() without the two lines for the cover.
NotesDeleteCoverSkipped(d) ==
    /\ deleter[d].pc = "cover"
    /\ deleter' = [deleter EXCEPT ![d].pc = "row"]
    /\ UNCHANGED <<users, profiles, announcements, courses, tutorials, notes,
                   quizzes, questions, answers, learners, instructors,
                   takenQuizzes, learnerAnswers, interests, expertise, blobs,
                   seq, writer, quizReq, last>>

\* if self.cover: self.cover.delete(save=False)
NotesDeleteCover(d) ==
    /\ deleter[d].pc = "cover"
    /\ IF deleter[d].cover # NoFile
         THEN \/ /\ blobs' = blobs \ {deleter[d].cover}
                 /\ deleter' = [deleter EXCEPT ![d].pc = "row",
                                               ![d].cover = NoFile]
              \/ /\ deleter' = [deleter EXCEPT ![d].pc = "failed"]
                 /\ UNCHANGED blobs
         ELSE /\ deleter' = [deleter EXCEPT ![d].pc = "row"]
              /\ UNCHANGED blobs
    /\ UNCHANGED <<users, profiles, announcements, courses, tutorials, notes,
                   quizzes, questions, answers, learners, instructors,
                   takenQuizzes, learnerAnswers, interests, expertise, seq,
                   writer, quizReq, last>>

\* super().delete(): the row with the instance's pk is removed (Notes has no
\* dependent rows).
NotesDeleteRow(d) ==
    /\ deleter[d].pc = "row"
    /\ notes' = {n \in notes : n.pk # deleter[d].row.pk}
    /\ deleter' = [deleter EXCEPT ![d].pc = "done"]
    /\ UNCHANGED <<users, profiles, announcements, courses, tutorials, quizzes,
                   questions, answers, learners, instructors, takenQuizzes,
                   learnerAnswers, interests, expertise, blobs, seq, writer,
                   quizReq, last>>

---------------------------------------------------------------------------
(* Quiz: validators and save *)

\* validators=[MinValueValidator(1), MaxValueValidator(180)]
MinTimeLimit == 1
MaxTimeLimit == 180
\* passing_score is a float; the model counts it in tenths of a point:
\* validators=[MinValueValidator(0.0), MaxValueValidator(100.0)]
MinPassingScore == 0
MaxPassingScore == 1000
\* validators=[MinValueValidator(1)]
MinMaxAttempts == 1
\* the defaults: 30 minutes, 70.0 points, 3 attempts
DefaultTimeLimit == 30
DefaultPassingScore == 700
DefaultMaxAttempts == 3

\* The values a caller may submit for each field: both sides of every bound
\* (-1 is what the storage layer itself refuses in a PositiveIntegerField).
TimeLimits == {0, MinTimeLimit, MaxTimeLimit, MaxTimeLimit + 1}
PassingScores == {MinPassingScore - 1, MinPassingScore, MaxPassingScore,
                  MaxPassingScore + 1}
AttemptLimits == {-1, 0, MinMaxAttempts}

\* The Quizzes a caller may submit, as <<time_limit_minutes, passing_score,
\* max_attempts>>: the defaults with one field set to each of its values
\* (each validator looks at its own field only), and the Quizzes that sit
\* on a bound, or beyond one, in all three fields.
QuizInputs ==
    {<<tl, DefaultPassingScore, DefaultMaxAttempts>> : tl \in TimeLimits}
    \cup {<<DefaultTimeLimit, ps, DefaultMaxAttempts>> : ps \in PassingScores}
    \cup {<<DefaultTimeLimit, DefaultPassingScore, ma>> : ma \in AttemptLimits}
    \cup {<<DefaultTimeLimit, DefaultPassingScore, DefaultMaxAttempts>>,
          <<MinTimeLimit, MinPassingScore, MinMaxAttempts>>,
          <<MaxTimeLimit, MaxPassingScore, MinMaxAttempts>>,
          <<MaxTimeLimit + 1, MaxPassingScore + 1, 0>>}

IdleQuizReq == [pc |-> "idle", pk |-> NoPk, owner |-> NoPk, course |-> NoPk,
                time_limit_minutes |-> DefaultTimeLimit,
                passing_score |-> DefaultPassingScore,
                max_attempts |-> DefaultMaxAttempts,
                cleaned |-> FALSE, result |-> "none"]

\* An upper bound that excludes 180 itself.
TimeLimitInvalidOffByOne(tl) == tl < MinTimeLimit \/ tl >= MaxTimeLimit

\* The field validators, run by full_clean().
TimeLimitInvalid(tl) == tl < MinTimeLimit \/ tl > MaxTimeLimit

PassingScoreInvalid(ps) == ps < MinPassingScore \/ ps > MaxPassingScore

MaxAttemptsInvalid(ma) == ma < MinMaxAttempts

QuizValidationError(tl, ps, ma) ==
    TimeLimitInvalid(tl) \/ PassingScoreInvalid(ps) \/ MaxAttemptsInvalid(ma)

\* What the storage layer checks of a Quiz row: the two foreign keys, and
\* that the PositiveIntegerField columns are not negative.
QuizIntegrityError(o, c, tl, ma) ==
    o \notin users \/ c \notin courses \/ tl < 0 \/ ma < 0

QuizRow(pk, o, c, tl, ps, ma) ==
    [pk |-> pk, owner |-> o, course |-> c, time_limit_minutes |-> tl,
     passing_score |-> ps, max_attempts |-> ma]

\* A caller builds a new Quiz.
QuizNew(o, c, tl, ps, ma) ==
    /\ quizReq.pc \in {"idle", "done"}
    /\ o \in users
    /\ c \in courses
    /\ quizReq' = [pc |-> "built", pk |-> NoPk, owner |-> o, course |-> c,
                   time_limit_minutes |-> tl, passing_score |-> ps,
                   max_attempts |-> ma, cleaned |-> FALSE, result |-> "none"]
    /\ UNCHANGED <<users, profiles, announcements, courses, tutorials, notes,
                   quizzes, questions, answers, learners, instructors,
                   takenQuizzes, learnerAnswers, interests, expertise, blobs,
                   seq, writer, deleter, last>>

\* A caller loads a stored Quiz and assigns the three bounded fields.
QuizLoad(q, tl, ps, ma) ==
    /\ quizReq.pc \in {"idle", "done"}
    /\ q \in quizzes
    /\ quizReq' = [pc |-> "built", pk |-> q.pk, owner |-> q.owner,
                   course |-> q.course, time_limit_minutes |-> tl,
                   passing_score |-> ps, max_attempts |-> ma,
                   cleaned |-> FALSE, result |-> "none"]
    /\ UNCHANGED <<users, profiles, announcements, courses, tutorials, notes,
                   quizzes, questions, answers, learners, instructors,
                   takenQuizzes, learnerAnswers, interests, expertise, blobs,
                   seq, writer, deleter, last>>

\* full_clean(): runs the validators; raises ValidationError, or returns.
QuizFullClean ==
    /\ quizReq.pc = "built"
    /\ IF QuizValidationError(quizReq.time_limit_minutes,
                              quizReq.passing_score, quizReq.max_attempts)
         THEN quizReq' = [quizReq EXCEPT !.pc = "done",
                                         !.result = "ValidationError"]
         ELSE quizReq' = [quizReq EXCEPT !.pc = "cleaned", !.cleaned = TRUE]
    /\ UNCHANGED <<users, profiles, announcements, courses, tutorials, notes,
                   quizzes, questions, answers, learners, instructors,
                   takenQuizzes, learnerAnswers, interests, expertise, blobs,
                   seq, writer, deleter, last>>

\* Model.save(): it does not run the validators.
QuizSave ==
    LET r == quizReq
        pk == IF r.pk = NoPk THEN NextPk("Quiz") ELSE r.pk
    IN
    /\ r.pc \in {"built", "cleaned"}
    /\ IF QuizIntegrityError(r.owner, r.course, r.time_limit_minutes,
                             r.max_attempts)
         THEN /\ quizReq' = [quizReq EXCEPT !.pc = "done",
                                            !.result = "IntegrityError"]
              /\ UNCHANGED <<quizzes, seq>>
         ELSE /\ quizzes' = {q \in quizzes : q.pk # pk}
                              \cup {QuizRow(pk, r.owner, r.course,
                                            r.time_limit_minutes,
                                            r.passing_score, r.max_attempts)}
              /\ seq' = IF r.pk = NoPk THEN Bump("Quiz") ELSE seq
              /\ quizReq' = [quizReq EXCEPT !.pc = "done", !.pk = pk,
                                            !.result = "saved"]
    /\ UNCHANGED <<users, profiles, announcements, courses, tutorials, notes,
                   questions, answers, learners, instructors, takenQuizzes,
                   learnerAnswers, interests, expertise, blobs, writer,
                   deleter, last>>

\* Quiz.objects.create(owner=o, course=c): a Quiz with the default values.
CreateQuiz(o, c) ==
    /\ ~QuizIntegrityError(o, c, DefaultTimeLimit, DefaultMaxAttempts)
    /\ quizzes' = quizzes \cup {QuizRow(NextPk("Quiz"), o, c, DefaultTimeLimit,
                                        DefaultPassingScore, DefaultMaxAttempts)}
    /\ seq' = Bump("Quiz")
    /\ UNCHANGED <<users, profiles, announcements, courses, tutorials, notes,
                   questions, answers, learners, instructors, takenQuizzes,
                   learnerAnswers, interests, expertise, blobs, writer,
                   deleter, quizReq, last>>

---------------------------------------------------------------------------
(* Announcement, Tutorial, Learner, Instructor and the many-to-many links *)

\* Profile.objects.create(user=u, email=e)
CreateProfile(u, e) ==
    /\ ~ProfileIntegrityError(NoPk, u, e)
    /\ profiles' = profiles \cup {[pk |-> NextPk("Profile"), user |-> u, email |-> e]}
    /\ seq' = Bump("Profile")
    /\ UNCHANGED <<users, announcements, courses, tutorials, notes, quizzes,
                   questions, answers, learners, instructors, takenQuizzes,
                   learnerAnswers, interests, expertise, blobs, writer,
                   deleter, quizReq, last>>

CreateAnnouncement(u) ==
    /\ u \in users
    /\ announcements' = announcements \cup {[pk |-> NextPk("Announcement"), user |-> u]}
    /\ seq' = Bump("Announcement")
    /\ UNCHANGED <<users, profiles, courses, tutorials, notes, quizzes,
                   questions, answers, learners, instructors, takenQuizzes,
                   learnerAnswers, interests, expertise, blobs, writer,
                   deleter, quizReq, last>>

CreateTutorial(c, u) ==
    /\ c \in courses
    /\ u \in users
    /\ tutorials' = tutorials \cup {[pk |-> NextPk("Tutorial"), course |-> c, user |-> u]}
    /\ seq' = Bump("Tutorial")
    /\ UNCHANGED <<users, profiles, announcements, courses, notes, quizzes,
                   questions, answers, learners, instructors, takenQuizzes,
                   learnerAnswers, interests, expertise, blobs, writer,
                   deleter, quizReq, last>>

\* user = OneToOneField(User, primary_key=True): the user's pk is the Learner's.
CreateLearner(u) ==
    /\ u \in users
    /\ u \notin learners
    /\ learners' = learners \cup {u}
    /\ UNCHANGED <<users, profiles, announcements, courses, tutorials, notes,
                   quizzes, questions, answers, instructors, takenQuizzes,
                   learnerAnswers, interests, expertise, blobs, seq, writer,
                   deleter, quizReq, last>>

CreateInstructor(u) ==
    /\ u \in users
    /\ \A i \in instructors : i.user # u
    /\ instructors' = instructors \cup {[pk |-> NextPk("Instructor"), user |-> u]}
    /\ seq' = Bump("Instructor")
    /\ UNCHANGED <<users, profiles, announcements, courses, tutorials, notes,
                   quizzes, questions, answers, learners, takenQuizzes,
                   learnerAnswers, interests, expertise, blobs, writer,
                   deleter, quizReq, last>>

\* learner.interests.add(course)
AddInterest(l, c) ==
    /\ l \in learners
    /\ c \in courses
    /\ \A x \in interests : ~(x.learner = l /\ x.course = c)
    /\ interests' = interests \cup {[pk |-> NextPk("interests"), learner |-> l, course |-> c]}
    /\ seq' = Bump("interests")
    /\ UNCHANGED <<users, profiles, announcements, courses, tutorials, notes,
                   quizzes, questions, answers, learners, instructors,
                   takenQuizzes, learnerAnswers, expertise, blobs, writer,
                   deleter, quizReq, last>>

\* instructor.expertise.add(course)
AddExpertise(i, c) ==
    /\ \E x \in instructors : x.pk = i
    /\ c \in courses
    /\ \A x \in expertise : ~(x.instructor = i /\ x.course = c)
    /\ expertise' = expertise \cup {[pk |-> NextPk("expertise"), instructor |-> i, course |-> c]}
    /\ seq' = Bump("expertise")
    /\ UNCHANGED <<users, profiles, announcements, courses, tutorials, notes,
                   quizzes, questions, answers, learners, instructors,
                   takenQuizzes, learnerAnswers, interests, blobs, writer,
                   deleter, quizReq, last>>

---------------------------------------------------------------------------
(* Question, Answer *)

QuizPks == {q.pk : q \in quizzes}
QuestionPks == {q.pk : q \in questions}
AnswerPks == {a.pk : a \in answers}

\* The values of Question.order a caller may give (the default is 1).
Orders == {1, 2}

CreateQuestion(z, ord) ==
    /\ z \in QuizPks
    /\ questions' = questions \cup {[pk |-> NextPk("Question"), quiz |-> z, order |-> ord]}
    /\ seq' = Bump("Question")
    /\ UNCHANGED <<users, profiles, announcements, courses, tutorials, notes,
                   quizzes, answers, learners, instructors, takenQuizzes,
                   learnerAnswers, interests, expertise, blobs, writer,
                   deleter, quizReq, last>>

CreateAnswer(qn) ==
    /\ qn \in QuestionPks
    /\ answers' = answers \cup {[pk |-> NextPk("Answer"), question |-> qn]}
    /\ seq' = Bump("Answer")
    /\ UNCHANGED <<users, profiles, announcements, courses, tutorials, notes,
                   quizzes, questions, learners, instructors, takenQuizzes,
                   learnerAnswers, interests, expertise, blobs, writer,
                   deleter, quizReq, last>>

---------------------------------------------------------------------------
(* TakenQuiz *)

\* unique_together without attempt_number.
TakenQuizConflictLearnerQuiz(l, z, n) ==
    \E t \in takenQuizzes : t.learner = l /\ t.quiz = z

\* unique_together = ['learner', 'quiz', 'attempt_number']
TakenQuizConflict(l, z, n) ==
    \E t \in takenQuizzes :
        t.learner = l /\ t.quiz = z /\ t.attempt_number = n

\* The storage layer's answer to the INSERT of a TakenQuiz row: the unique
\* index, the two foreign keys, and attempt_number (a PositiveIntegerField).
TakenQuizIntegrityError(l, z, n) ==
    TakenQuizConflict(l, z, n) \/ l \notin learners \/ z \notin QuizPks \/ n < 0

\* TakenQuiz.objects.create(learner=l, quiz=z, attempt_number=n, ...): one
\* INSERT, which the storage layer runs atomically.
InsertTakenQuiz(l, z, n) ==
    /\ IF TakenQuizIntegrityError(l, z, n)
         THEN /\ last' = [op |-> "TakenQuiz", key |-> <<l, z, n>>,
                          result |-> "IntegrityError", n |-> 0, rows |-> <<>>]
              /\ UNCHANGED <<takenQuizzes, seq>>
         ELSE /\ takenQuizzes' = takenQuizzes \cup
                    {[pk |-> NextPk("TakenQuiz"), learner |-> l, quiz |-> z,
                      attempt_number |-> n]}
              /\ seq' = Bump("TakenQuiz")
              /\ last' = [op |-> "TakenQuiz", key |-> <<l, z, n>>,
                          result |-> "saved", n |-> 0, rows |-> <<>>]
    /\ UNCHANGED <<users, profiles, announcements, courses, tutorials, notes,
                   quizzes, questions, answers, learners, instructors,
                   learnerAnswers, interests, expertise, blobs, writer,
                   deleter, quizReq>>

---------------------------------------------------------------------------
(* LearnerAnswer *)

\* unique_together on ['student', 'answer'] instead.
LearnerAnswerConflictOnAnswer(s, a, qn) ==
    \E x \in learnerAnswers : x.student = s /\ x.answer = a

\* unique_together = ['student', 'question']
LearnerAnswerConflict(s, a, qn) ==
    \E x \in learnerAnswers : x.student = s /\ x.question = qn

\* Nothing ties the question column to the answer's question.
LearnerAnswerIntegrityError(s, a, qn) ==
    \/ LearnerAnswerConflict(s, a, qn)
    \/ s \notin learners
    \/ a \notin AnswerPks
    \/ qn \notin QuestionPks

\* LearnerAnswer.objects.create(student=s, answer=a, question=qn): one INSERT.
InsertLearnerAnswer(s, a, qn) ==
    /\ IF LearnerAnswerIntegrityError(s, a, qn)
         THEN /\ last' = [op |-> "LearnerAnswer", key |-> <<s, a, qn>>,
                          result |-> "IntegrityError", n |-> 0, rows |-> <<>>]
              /\ UNCHANGED <<learnerAnswers, seq>>
         ELSE /\ learnerAnswers' = learnerAnswers \cup
                    {[pk |-> NextPk("LearnerAnswer"), student |-> s,
                      answer |-> a, question |-> qn]}
              /\ seq' = Bump("LearnerAnswer")
              /\ last' = [op |-> "LearnerAnswer", key |-> <<s, a, qn>>,
                          result |-> "saved", n |-> 0, rows |-> <<>>]
    /\ UNCHANGED <<users, profiles, announcements, courses, tutorials, notes,
                   quizzes, questions, answers, learners, instructors,
                   takenQuizzes, interests, expertise, blobs, writer, deleter,
                   quizReq>>

---------------------------------------------------------------------------
(* Learner.get_unanswered_questions *)

\* Meta.ordering / order_by('order', 'id')
Before(q, r) == q.order < r.order \/ (q.order = r.order /\ q.pk < r.pk)

RECURSIVE OrderByOrderId(_)
OrderByOrderId(S) ==
    IF S = {} THEN <<>>
    ELSE LET m == CHOOSE q \in S : \A r \in S \ {q} : Before(q, r)
         IN <<m.pk>> \o OrderByOrderId(S \ {m})

\* The same query over LearnerAnswer.objects, not self.quiz_answers.
AnsweredByAnyLearner(l, z) ==
    {q.pk : q \in {qn \in questions :
        /\ qn.quiz = z
        /\ \E x \in learnerAnswers, a \in answers :
              x.answer = a.pk /\ a.question = qn.pk}}

\* self.quiz_answers.filter(answer__question__quiz=quiz)
\*                  .values_list('answer__question__pk', flat=True)
\* the learner's LearnerAnswer rows, joined to Answer by the answer column
\* and to Question by the answer's question.
AnsweredQuestions(l, z) ==
    {q.pk : q \in {qn \in questions :
        /\ qn.quiz = z
        /\ \E x \in learnerAnswers, a \in answers :
              x.student = l /\ x.answer = a.pk /\ a.question = qn.pk}}

\* quiz.questions.exclude(pk__in=answered_questions).order_by('order', 'id')
GetUnansweredQuestions(l, z) ==
    OrderByOrderId({q \in questions :
                      q.quiz = z /\ q.pk \notin AnsweredQuestions(l, z)})

\* A caller evaluates learner.get_unanswered_questions(quiz).
ViewUnanswered(l, z) ==
    /\ l \in learners
    /\ z \in QuizPks
    /\ last' = [op |-> "get_unanswered_questions", key |-> <<l, z>>,
                result |-> "returned", n |-> 0,
                rows |-> GetUnansweredQuestions(l, z)]
    /\ UNCHANGED <<users, profiles, announcements, courses, tutorials, notes,
                   quizzes, questions, answers, learners, instructors,
                   takenQuizzes, learnerAnswers, interests, expertise, blobs,
                   seq, writer, deleter, quizReq>>

---------------------------------------------------------------------------
(* Deletion: every relation is declared on_delete=models.CASCADE, so the    *)
(* delete of a row of table t collects the rows that reference it, the rows *)
(* that reference those, and so on, and removes them in one transaction.    *)
(* Rows removed this way do not run their class's delete() method.          *)

GoneUsers(t, pk) == IF t = "User" THEN {pk} \cap users ELSE {}

GoneCourses(t, pk) == IF t = "Course" THEN {pk} \cap courses ELSE {}

\* Profile.user
GoneProfiles(t, pk) ==
    {p \in profiles : (t = "Profile" /\ p.pk = pk) \/ p.user \in GoneUsers(t, pk)}

\* Announcement.user
GoneAnnouncements(t, pk) ==
    {a \in announcements :
        (t = "Announcement" /\ a.pk = pk) \/ a.user \in GoneUsers(t, pk)}

\* Tutorial.course, Tutorial.user
GoneTutorials(t, pk) ==
    {x \in tutorials :
        \/ t = "Tutorial" /\ x.pk = pk
        \/ x.course \in GoneCourses(t, pk)
        \/ x.user \in GoneUsers(t, pk)}

\* Notes.course, Notes.user
GoneNotes(t, pk) ==
    {n \in notes :
        \/ t = "Notes" /\ n.pk = pk
        \/ n.course \in GoneCourses(t, pk)
        \/ n.user \in GoneUsers(t, pk)}

\* Quiz.owner, Quiz.course
GoneQuizzes(t, pk) ==
    {q \in quizzes :
        \/ t = "Quiz" /\ q.pk = pk
        \/ q.owner \in GoneUsers(t, pk)
        \/ q.course \in GoneCourses(t, pk)}

\* Question.quiz without the cascade.
GoneQuestionsKeptWithQuiz(t, pk) ==
    {q \in questions : t = "Question" /\ q.pk = pk}

\* Question.quiz
GoneQuestions(t, pk) ==
    {q \in questions :
        \/ t = "Question" /\ q.pk = pk
        \/ \E z \in GoneQuizzes(t, pk) : q.quiz = z.pk}

\* Answer.question
GoneAnswers(t, pk) ==
    {a \in answers :
        \/ t = "Answer" /\ a.pk = pk
        \/ \E q \in GoneQuestions(t, pk) : a.question = q.pk}

\* Learner.user
GoneLearners(t, pk) ==
    {l \in learners : (t = "Learner" /\ l = pk) \/ l \in GoneUsers(t, pk)}

\* Instructor.user
GoneInstructors(t, pk) ==
    {i \in instructors :
        (t = "Instructor" /\ i.pk = pk) \/ i.user \in GoneUsers(t, pk)}

\* TakenQuiz.learner, TakenQuiz.quiz
GoneTakenQuizzes(t, pk) ==
    {x \in takenQuizzes :
        \/ t = "TakenQuiz" /\ x.pk = pk
        \/ x.learner \in GoneLearners(t, pk)
        \/ \E z \in GoneQuizzes(t, pk) : x.quiz = z.pk}

\* LearnerAnswer.student, LearnerAnswer.answer, LearnerAnswer.question
GoneLearnerAnswers(t, pk) ==
    {x \in learnerAnswers :
        \/ t = "LearnerAnswer" /\ x.pk = pk
        \/ x.student \in GoneLearners(t, pk)
        \/ \E a \in GoneAnswers(t, pk) : x.answer = a.pk
        \/ \E q \in GoneQuestions(t, pk) : x.question = q.pk}

\* the link rows of Learner.interests
GoneInterests(t, pk) ==
    {x \in interests :
        \/ t = "interests" /\ x.pk = pk
        \/ x.learner \in GoneLearners(t, pk)
        \/ x.course \in GoneCourses(t, pk)}

\* the link rows of Instructor.expertise
GoneExpertise(t, pk) ==
    {x \in expertise :
        \/ t = "expertise" /\ x.pk = pk
        \/ \E i \in GoneInstructors(t, pk) : x.instructor = i.pk
        \/ x.course \in GoneCourses(t, pk)}

\* The number of rows a delete removes (the first component of its result).
Collected(t, pk) ==
      Cardinality(GoneUsers(t, pk)) + Cardinality(GoneCourses(t, pk))
    + Cardinality(GoneProfiles(t, pk)) + Cardinality(GoneAnnouncements(t, pk))
    + Cardinality(GoneTutorials(t, pk)) + Cardinality(GoneNotes(t, pk))
    + Cardinality(GoneQuizzes(t, pk)) + Cardinality(GoneQuestions(t, pk))
    + Cardinality(GoneAnswers(t, pk)) + Cardinality(GoneLearners(t, pk))
    + Cardinality(GoneInstructors(t, pk)) + Cardinality(GoneTakenQuizzes(t, pk))
    + Cardinality(GoneLearnerAnswers(t, pk)) + Cardinality(GoneInterests(t, pk))
    + Cardinality(GoneExpertise(t, pk))

\* The tables a caller can delete from, and the stored primary keys of each.
Models == (Tables \ {"blob"}) \cup {"Learner"}

PksOf(t) ==
    CASE t = "User" -> users
      [] t = "Course" -> courses
      [] t = "Learner" -> learners
      [] t = "Profile" -> {x.pk : x \in profiles}
      [] t = "Announcement" -> {x.pk : x \in announcements}
      [] t = "Tutorial" -> {x.pk : x \in tutorials}
      [] t = "Notes" -> {x.pk : x \in notes}
      [] t = "Quiz" -> QuizPks
      [] t = "Question" -> QuestionPks
      [] t = "Answer" -> AnswerPks
      [] t = "Instructor" -> {x.pk : x \in instructors}
      [] t = "TakenQuiz" -> {x.pk : x \in takenQuizzes}
      [] t = "LearnerAnswer" -> {x.pk : x \in learnerAnswers}
      [] t = "interests" -> {x.pk : x \in interests}
      [] t = "expertise" -> {x.pk : x \in expertise}

\* Model.delete() / QuerySet.delete() of the row pk of table t.
Delete(t, pk) ==
    /\ pk \in PksOf(t)
    /\ users' = users \ GoneUsers(t, pk)
    /\ courses' = courses \ GoneCourses(t, pk)
    /\ profiles' = profiles \ GoneProfiles(t, pk)
    /\ announcements' = announcements \ GoneAnnouncements(t, pk)
    /\ tutorials' = tutorials \ GoneTutorials(t, pk)
    /\ notes' = notes \ GoneNotes(t, pk)
    /\ quizzes' = quizzes \ GoneQuizzes(t, pk)
    /\ questions' = questions \ GoneQuestions(t, pk)
    /\ answers' = answers \ GoneAnswers(t, pk)
    /\ learners' = learners \ GoneLearners(t, pk)
    /\ instructors' = instructors \ GoneInstructors(t, pk)
    /\ takenQuizzes' = takenQuizzes \ GoneTakenQuizzes(t, pk)
    /\ learnerAnswers' = learnerAnswers \ GoneLearnerAnswers(t, pk)
    /\ interests' = interests \ GoneInterests(t, pk)
    /\ expertise' = expertise \ GoneExpertise(t, pk)
    /\ last' = [op |-> "delete", key |-> <<t, pk>>, result |-> "deleted",
                n |-> Collected(t, pk), rows |-> <<>>]
    /\ UNCHANGED <<blobs, seq, writer, deleter, quizReq>>

---------------------------------------------------------------------------
(* Properties *)

\* C1: in every reachable state, whatever the interleaving of the profile
\* creates and e-mail updates, no two distinct Profile rows hold the same
\* email.
C1_EmailUnique ==
    \A p \in profiles, q \in profiles : p.pk # q.pk => p.email # q.email

\* Two profiles are stored and a writer's update of a stored profile to a
\* non-empty e-mail has succeeded.
C1_Witness ==
    /\ Cardinality(profiles) >= 2
    /\ \E w \in Writers :
          /\ writer[w].op = "update"
          /\ writer[w].result = "saved"
          /\ writer[w].email # ""

\* s lists exactly the primary keys of the questions in S, each once, in
\* ascending (order, id).
IsListing(s, S) ==
    /\ Len(s) = Cardinality(S)
    /\ {s[i] : i \in 1..Len(s)} = {q.pk : q \in S}
    /\ \A i \in 1..Len(s), j \in 1..Len(s) :
          i < j => \E q \in S, r \in S :
                      /\ q.pk = s[i] /\ r.pk = s[j]
                      /\ (q.order < r.order \/ (q.order = r.order /\ q.pk < r.pk))

\* C2 as claimed: for every learner and quiz, get_unanswered_questions
\* returns the quiz's questions for which the learner has no LearnerAnswer
\* row whose question column is that question, in ascending (order, id).
C2_ByQuestionColumn ==
    \A l \in learners, z \in QuizPks :
        IsListing(GetUnansweredQuestions(l, z),
                  {q \in questions :
                      /\ q.quiz = z
                      /\ ~\E x \in learnerAnswers :
                            x.student = l /\ x.question = q.pk})

\* C2, amended: for every learner and quiz, get_unanswered_questions returns
\* the quiz's questions for which the learner has no LearnerAnswer row whose
\* answer belongs to that question (the row's question column is not read),
\* in ascending (order, id); and a call changes no stored record.
C2_ByAnswersQuestion ==
    /\ [](\A l \in learners, z \in QuizPks :
            IsListing(GetUnansweredQuestions(l, z),
                      {q \in questions :
                          /\ q.quiz = z
                          /\ ~\E x \in learnerAnswers, a \in answers :
                                /\ x.student = l
                                /\ x.answer = a.pk
                                /\ a.question = q.pk}))
    /\ [][(last' # last /\ last'.op = "get_unanswered_questions")
            => (tables' = tables /\ blobs' = blobs)]_vars

\* A learner has a LearnerAnswer whose question column names another
\* question than its answer's, both questions of one quiz, and the call for
\* that learner and quiz has just returned a listing that still holds the
\* question named by the question column.
C2_Witness ==
    \E x \in learnerAnswers, a \in answers, q \in questions, r \in questions :
        /\ x.answer = a.pk /\ a.question = r.pk /\ x.question = q.pk
        /\ q.pk # r.pk /\ q.quiz = r.quiz
        /\ last.op = "get_unanswered_questions"
        /\ last.key = <<x.student, q.quiz>>
        /\ last.rows = GetUnansweredQuestions(x.student, q.quiz)
        /\ \E i \in 1..Len(last.rows) : last.rows[i] = q.pk

\* C3: when Notes.delete() has completed, the blob store holds neither the
\* record's file blob nor its cover blob and the row is gone; and deleting a
\* record with neither attachment removes nothing from the blob store.
C3_DeleteLeavesNoBlob ==
    /\ [](\A d \in Deleters :
            deleter[d].pc = "done" =>
                /\ \A n \in notes : n.pk # deleter[d].row.pk
                /\ deleter[d].row.file \notin blobs
                /\ deleter[d].row.cover \notin blobs)
    /\ [][\A d \in Deleters :
            (/\ deleter[d].pc \in {"file", "cover", "row"}
             /\ deleter'[d] # deleter[d]
             /\ deleter[d].row.file = NoFile
             /\ deleter[d].row.cover = NoFile) => blobs' = blobs]_vars

\* A delete of a record with both a file and a cover has completed.
C3_Witness ==
    \E d \in Deleters :
        /\ deleter[d].pc = "done"
        /\ deleter[d].row.file # NoFile
        /\ deleter[d].row.cover # NoFile

\* C4: an insert of a TakenQuiz whose (learner, quiz, attempt_number) is
\* already stored fails with an integrity error and leaves the table
\* unchanged, whatever the order in which the inserts reach the storage
\* layer; any other insert (the same learner and quiz with another
\* attempt_number included) adds exactly that row; so at most one row per
\* triple is ever stored.
C4_TakenQuizUnique ==
    /\ [](\A t \in takenQuizzes, u \in takenQuizzes :
            (/\ t.learner = u.learner /\ t.quiz = u.quiz
             /\ t.attempt_number = u.attempt_number) => t.pk = u.pk)
    /\ [][(last' # last /\ last'.op = "TakenQuiz") =>
            IF \E t \in takenQuizzes :
                  last'.key = <<t.learner, t.quiz, t.attempt_number>>
              THEN /\ last'.result = "IntegrityError"
                   /\ takenQuizzes' = takenQuizzes
              ELSE /\ last'.result = "saved"
                   /\ \E t \in takenQuizzes' \ takenQuizzes :
                         /\ last'.key = <<t.learner, t.quiz, t.attempt_number>>
                         /\ takenQuizzes' = takenQuizzes \cup {t}]_vars

\* The last insert repeated a stored triple and was refused, while the same
\* learner holds two attempts of that quiz under different numbers.
C4_Witness ==
    /\ last.op = "TakenQuiz"
    /\ last.result = "IntegrityError"
    /\ \E t \in takenQuizzes, u \in takenQuizzes :
          /\ last.key = <<t.learner, t.quiz, t.attempt_number>>
          /\ u.learner = t.learner /\ u.quiz = t.quiz
          /\ u.attempt_number # t.attempt_number

\* C5: an insert of a LearnerAnswer whose (student, question) is already
\* stored fails with an integrity error and leaves the table unchanged,
\* also when it names another Answer and whatever the order in which the
\* inserts reach the storage layer; any other insert with valid references
\* adds the row; so each learner has at most one stored answer per question.
C5_LearnerAnswerUnique ==
    /\ [](\A x \in learnerAnswers, y \in learnerAnswers :
            (x.student = y.student /\ x.question = y.question) => x.pk = y.pk)
    /\ [][(last' # last /\ last'.op = "LearnerAnswer") =>
            IF \E x \in learnerAnswers :
                  x.student = last'.key[1] /\ x.question = last'.key[3]
              THEN /\ last'.result = "IntegrityError"
                   /\ learnerAnswers' = learnerAnswers
              ELSE /\ last'.result = "saved"
                   /\ \E x \in learnerAnswers' \ learnerAnswers :
                         /\ last'.key = <<x.student, x.answer, x.question>>
                         /\ learnerAnswers' = learnerAnswers \cup {x}]_vars

\* The last insert was refused, and it named another Answer than the stored
\* row of the same student and question.
C5_Witness ==
    /\ last.op = "LearnerAnswer"
    /\ last.result = "IntegrityError"
    /\ \E x \in learnerAnswers :
          /\ x.student = last.key[1] /\ x.question = last.key[3]
          /\ x.answer # last.key[2]

\* The three bounds of the claim (passing_score in tenths of a point).
C6_InBounds(tl, ps, ma) ==
    /\ tl >= 1 /\ tl <= 180
    /\ ps >= 0 /\ ps <= 1000
    /\ ma >= 1

\* C6 as claimed: every stored Quiz satisfies the three bounds in every
\* reachable state.
C6_StoredInBounds ==
    \A q \in quizzes :
        C6_InBounds(q.time_limit_minutes, q.passing_score, q.max_attempts)

\* C6, amended: validation (full_clean) rejects a Quiz exactly when
\* time_limit_minutes is outside [1,180], passing_score is outside [0,100]
\* or max_attempts is below 1 (so it accepts the boundary values), and a
\* save that follows a successful validation stores a Quiz within the three
\* bounds.
C6_ValidatedInBounds ==
    [][/\ (quizReq.pc = "built" /\ quizReq'.pc = "cleaned") =>
             C6_InBounds(quizReq.time_limit_minutes, quizReq.passing_score,
                         quizReq.max_attempts)
       /\ (quizReq.pc = "built" /\ quizReq'.result = "ValidationError") =>
             ~C6_InBounds(quizReq.time_limit_minutes, quizReq.passing_score,
                          quizReq.max_attempts)
       /\ (quizReq.pc = "cleaned" /\ quizReq'.result = "saved") =>
             \E q \in quizzes' :
                 /\ q.pk = quizReq'.pk
                 /\ q.time_limit_minutes = quizReq.time_limit_minutes
                 /\ q.passing_score = quizReq.passing_score
                 /\ q.max_attempts = quizReq.max_attempts
                 /\ C6_InBounds(q.time_limit_minutes, q.passing_score,
                                q.max_attempts)]_vars

\* A Quiz at the upper boundary values of time limit and score and the
\* lower one of attempts has passed validation and been stored.
C6_Witness ==
    /\ quizReq.result = "saved"
    /\ quizReq.cleaned
    /\ \E q \in quizzes :
          /\ q.pk = quizReq.pk
          /\ q.time_limit_minutes = 180
          /\ q.passing_score = 1000
          /\ q.max_attempts = 1

\* C7: in every state reached by creates and deletes, every foreign key of
\* every stored row names a stored row.
C7_NoDanglingReference ==
    /\ \A p \in profiles : p.user \in users
    /\ \A a \in announcements : a.user \in users
    /\ \A x \in tutorials : x.course \in courses /\ x.user \in users
    /\ \A n \in notes : n.course \in courses /\ n.user \in users
    /\ \A q \in quizzes : q.owner \in users /\ q.course \in courses
    /\ \A q \in questions : q.quiz \in QuizPks
    /\ \A a \in answers : a.question \in QuestionPks
    /\ \A l \in learners : l \in users
    /\ \A i \in instructors : i.user \in users
    /\ \A x \in takenQuizzes : x.learner \in learners /\ x.quiz \in QuizPks
    /\ \A x \in learnerAnswers :
          /\ x.student \in learners
          /\ x.answer \in AnswerPks
          /\ x.question \in QuestionPks
    /\ \A x \in interests : x.learner \in learners /\ x.course \in courses
    /\ \A x \in expertise :
          /\ x.instructor \in {i.pk : i \in instructors}
          /\ x.course \in courses

\* The delete of a Course has just removed, with it, a Quiz, a Question, an
\* Answer and a LearnerAnswer.
C7_Witness ==
    /\ last.op = "delete"
    /\ last.key[1] = "Course"
    /\ last.n >= 5
    /\ seq["LearnerAnswer"] >= 1
    /\ learnerAnswers = {} /\ answers = {} /\ questions = {} /\ quizzes = {}

\* C8: Profile.clean() raises a validation error exactly when the email is
\* non-empty and a stored Profile with another primary key has it, and it
\* changes no stored record either way.
C8_CleanExact ==
    [][\A w \in Writers :
         (/\ writer[w].pc = "loaded"
          /\ (writer'[w].pc = "cleaned" \/ writer'[w].result = "ValidationError"))
         => /\ (writer'[w].result = "ValidationError") <=>
                  (/\ writer[w].email # ""
                   /\ \E p \in profiles :
                         p.email = writer[w].email /\ p.pk # writer[w].pk)
            /\ tables' = tables]_vars

\* A writer re-validates a stored profile whose non-empty email it left
\* unchanged, and clean() has returned.
C8_Witness ==
    \E w \in Writers, p \in profiles :
        /\ writer[w].pc = "cleaned"
        /\ writer[w].op = "update"
        /\ p.pk = writer[w].pk
        /\ p.email = writer[w].email
        /\ p.email # ""

\* C9: a save by a writer whose clean() returned without error, made when
\* another stored Profile already holds its email, is refused by the storage
\* layer with an integrity error (not a validation error) and stores nothing.
C9_RaceStoppedByStorage ==
    [][\A w \in Writers :
         (/\ writer[w].pc = "cleaned"
          /\ writer'[w].pc = "done"
          /\ \E p \in profiles :
                p.pk # writer[w].pk /\ p.email = writer[w].email)
         => /\ writer'[w].result = "IntegrityError"
            /\ profiles' = profiles]_vars

\* Two writers created profiles for different users with the same new
\* email; both passed clean(); one was saved and is the only stored profile,
\* the other was refused with an integrity error.
C9_Witness ==
    \E w \in Writers, v \in Writers :
        /\ writer[w].op = "create" /\ writer[v].op = "create"
        /\ writer[w].cleaned /\ writer[v].cleaned
        /\ writer[w].email = writer[v].email /\ writer[w].email # ""
        /\ writer[w].user # writer[v].user
        /\ writer[w].result = "saved"
        /\ writer[v].result = "IntegrityError"
        /\ profiles = {[pk |-> writer[w].pk, user |-> writer[w].user,
                        email |-> writer[w].email]}

\* C10: Notes.delete() removes the file blob, then the cover blob, then the
\* row: a row is removed only when neither of its blobs is stored, the cover
\* is handled only after the file blob is gone, and a failed blob removal
\* ends the call with rows and blobs as they were.
C10_BlobsBeforeRow ==
    /\ [](\A d \in Deleters :
            /\ deleter[d].pc \in {"cover", "row"} => deleter[d].row.file \notin blobs
            /\ deleter[d].pc = "row" => deleter[d].row.cover \notin blobs)
    /\ [][/\ \A n \in notes \ notes' : n.file \notin blobs /\ n.cover \notin blobs
          /\ \A d \in Deleters :
                (deleter[d].pc # "failed" /\ deleter'[d].pc = "failed")
                   => (notes' = notes /\ blobs' = blobs)
          /\ \A d \in Deleters :
                (deleter[d].pc = "failed" /\ deleter'[d] # deleter[d])
                   => (notes' = notes /\ blobs' = blobs)]_vars

\* A call failed at the cover: its row is still stored and names a file
\* whose blob is already gone.
C10_Witness ==
    \E d \in Deleters, n \in notes :
        /\ deleter[d].pc = "failed"
        /\ deleter[d].row = n
        /\ n.file # NoFile
        /\ n.file \notin blobs
        /\ n.cover \in blobs

---------------------------------------------------------------------------
(* Initial states *)

IdleLast == [op |-> "none", key |-> <<>>, result |-> "none", n |-> 0,
             rows |-> <<>>]

\* An empty store and idle callers.
Init ==
    /\ users = {} /\ profiles = {} /\ announcements = {} /\ courses = {}
    /\ tutorials = {} /\ notes = {} /\ quizzes = {} /\ questions = {}
    /\ answers = {} /\ learners = {} /\ instructors = {}
    /\ takenQuizzes = {} /\ learnerAnswers = {} /\ interests = {}
    /\ expertise = {} /\ blobs = {}
    /\ seq = [t \in Tables |-> 0]
    /\ writer = [w \in Writers |-> IdleWriter]
    /\ deleter = [d \in Deleters |-> IdleDeleter]
    /\ quizReq = IdleQuizReq
    /\ last = IdleLast

\* The store after CreateUser, CreateUser, CreateCourse: two users and a course.
InitCatalog ==
    /\ users = {1, 2} /\ profiles = {} /\ announcements = {} /\ courses = {1}
    /\ tutorials = {} /\ notes = {} /\ quizzes = {} /\ questions = {}
    /\ answers = {} /\ learners = {} /\ instructors = {}
    /\ takenQuizzes = {} /\ learnerAnswers = {} /\ interests = {}
    /\ expertise = {} /\ blobs = {}
    /\ seq = [t \in Tables |-> CASE t = "User" -> 2 [] t = "Course" -> 1
                                 [] OTHER -> 0]
    /\ writer = [w \in Writers |-> IdleWriter]
    /\ deleter = [d \in Deleters |-> IdleDeleter]
    /\ quizReq = IdleQuizReq
    /\ last = IdleLast

\* The store after two more CreateLearner and two CreateQuiz: both users are
\* learners, and each owns one quiz of the course.
InitLearning ==
    /\ users = {1, 2} /\ profiles = {} /\ announcements = {} /\ courses = {1}
    /\ tutorials = {} /\ notes = {}
    /\ quizzes = {QuizRow(1, 1, 1, DefaultTimeLimit, DefaultPassingScore,
                          DefaultMaxAttempts),
                  QuizRow(2, 2, 1, DefaultTimeLimit, DefaultPassingScore,
                          DefaultMaxAttempts)}
    /\ questions = {} /\ answers = {} /\ learners = {1, 2} /\ instructors = {}
    /\ takenQuizzes = {} /\ learnerAnswers = {} /\ interests = {}
    /\ expertise = {} /\ blobs = {}
    /\ seq = [t \in Tables |-> CASE t = "User" -> 2 [] t = "Course" -> 1
                                 [] t = "Quiz" -> 2 [] OTHER -> 0]
    /\ writer = [w \in Writers |-> IdleWriter]
    /\ deleter = [d \in Deleters |-> IdleDeleter]
    /\ quizReq = IdleQuizReq
    /\ last = IdleLast

---------------------------------------------------------------------------
(* Specifications *)

NextProfile ==
    \/ seq["User"] < MaxUsers /\ CreateUser
    \/ \E w \in Writers, u \in users, e \in Emails : ProfileNew(w, u, e)
    \/ \E w \in Writers, p \in profiles, e \in Emails : ProfileLoad(w, p, e)
    \/ \E w \in Writers : ProfileClean(w)
    \/ \E w \in Writers : ProfileSave(w)

SpecProfile == Init /\ [][NextProfile]_vars

NextNotes ==
    \/ seq["Notes"] < MaxNotes
         /\ \E c \in courses, u \in users, f \in BOOLEAN, cv \in BOOLEAN :
              NotesCreate(c, u, f, cv)
    \/ \E d \in Deleters, n \in notes : NotesDeleteBegin(d, n)
    \/ \E d \in Deleters : NotesDeleteFile(d)
    \/ \E d \in Deleters : NotesDeleteCover(d)
    \/ \E d \in Deleters : NotesDeleteRow(d)

SpecNotes == InitCatalog /\ [][NextNotes]_vars

NextQuiz ==
    \/ seq["Quiz"] < MaxQuizzes
         /\ \E o \in users, c \in courses, v \in QuizInputs :
              QuizNew(o, c, v[1], v[2], v[3])
    \/ \E q \in quizzes, v \in QuizInputs : QuizLoad(q, v[1], v[2], v[3])
    \/ QuizFullClean
    \/ QuizSave

SpecQuiz == InitCatalog /\ [][NextQuiz]_vars

NextTaken ==
    \/ seq["TakenQuiz"] < MaxTaken
         /\ \E l \in learners, z \in QuizPks, n \in 1..MaxAttemptNo :
              InsertTakenQuiz(l, z, n)

SpecTaken == InitLearning /\ [][NextTaken]_vars

\* The questions, answers and learner answers created so far.
AnswerRows == seq["Question"] + seq["Answer"] + seq["LearnerAnswer"]

NextAnswers ==
    \/ AnswerRows < MaxAnswerRows
         /\ \E z \in QuizPks, ord \in Orders : CreateQuestion(z, ord)
    \/ AnswerRows < MaxAnswerRows
         /\ \E qn \in QuestionPks : CreateAnswer(qn)
    \/ AnswerRows < MaxAnswerRows
         /\ \E s \in learners, a \in AnswerPks, qn \in QuestionPks :
              InsertLearnerAnswer(s, a, qn)
    \/ \E l \in learners, z \in QuizPks : ViewUnanswered(l, z)

SpecAnswers == InitLearning /\ [][NextAnswers]_vars

\* The rows created so far, over all tables.
Created ==
    seq["User"] + seq["Profile"] + seq["Announcement"] + seq["Course"]
    + seq["Tutorial"] + seq["Notes"] + seq["Quiz"] + seq["Question"]
    + seq["Answer"] + seq["Instructor"] + seq["TakenQuiz"]
    + seq["LearnerAnswer"] + seq["interests"] + seq["expertise"]
    + Cardinality(learners)

NextCascade ==
    \/ Created < MaxRows /\ seq["User"] < MaxUsers /\ CreateUser
    \/ Created < MaxRows /\ seq["Course"] < MaxCourses /\ CreateCourse
    \/ Created < MaxRows
         /\ \E u \in users, e \in Emails \ {""} : CreateProfile(u, e)
    \/ Created < MaxRows /\ \E u \in users : CreateAnnouncement(u)
    \/ Created < MaxRows
         /\ \E c \in courses, u \in users : CreateTutorial(c, u)
    \/ Created < MaxRows
         /\ \E c \in courses, u \in users : NotesCreate(c, u, FALSE, FALSE)
    \/ Created < MaxRows
         /\ \E o \in users, c \in courses : CreateQuiz(o, c)
    \/ Created < MaxRows /\ \E z \in QuizPks : CreateQuestion(z, 1)
    \/ Created < MaxRows /\ \E qn \in QuestionPks : CreateAnswer(qn)
    \/ Created < MaxRows /\ \E u \in users : CreateLearner(u)
    \/ Created < MaxRows /\ \E u \in users : CreateInstructor(u)
    \/ Created < MaxRows
         /\ \E l \in learners, z \in QuizPks : InsertTakenQuiz(l, z, 1)
    \/ Created < MaxRows
         /\ \E s \in learners, a \in AnswerPks, qn \in QuestionPks :
              InsertLearnerAnswer(s, a, qn)
    \/ Created < MaxRows
         /\ \E l \in learners, c \in courses : AddInterest(l, c)
    \/ Created < MaxRows
         /\ \E i \in instructors, c \in courses : AddExpertise(i.pk, c)
    \/ \E t \in Models : \E pk \in PksOf(t) : Delete(t, pk)

SpecCascade == Init /\ [][NextCascade]_vars

=============================================================================
